---------------------------- MODULE Spec2Model ----------------------------
(***************************************************************************)
(* DPDSL: differential-privacy query rewriter.                             *)
(*                                                                         *)
(* The module models the two query pipelines of the repository:            *)
(*   "prod"     DPDSLRewriter.execute_query            (rewriter.py)       *)
(*   "hospital" HospitalDPDSLMiddleware.execute_user_query                 *)
(*              (hospital_production.py), which calls                      *)
(*              rewrite_and_execute                    (dp_rewriter.py)    *)
(*   "dev"      rewrite_and_execute called directly    (app.py, tests)     *)
(*                                                                         *)
(* A query is its parse tree; the text the regular expressions of the      *)
(* compliance checkers read is the token sequence Render(q).  Epsilon      *)
(* values are counted in units of 0.5 (all literals of the model are       *)
(* exact binary fractions, so integer arithmetic is the float arithmetic). *)
(***************************************************************************)
EXTENDS Integers, Sequences, FiniteSets, TLC

(***************************************************************************)
(* Bounds of the model.                                                    *)
(***************************************************************************)
MaxCalls == 1
MaxLedgerCalls == 3
MaxConcCalls == 2
MaxRows == 3
MaxText == 3

(***************************************************************************)
(* Configuration.                                                          *)
(***************************************************************************)
DEFAULT_EPSILON == 2
MAX_EPSILON_PER_QUERY == 4
MAX_BUDGET_PER_SESSION == 20
TEST_MAX_BUDGET == 4

PROHIBITED_COLUMNS ==
    { "email", "Email", "EMAIL", "ssn", "SSN", "social_security_number",
      "address", "Address", "ADDRESS", "phone", "Phone", "phone_number",
      "PHONE", "bank_account", "Bank_account_number", "bank_account_number",
      "first_name", "First_name", "FirstName", "FIRST_NAME",
      "last_name", "Last_name", "LastName", "LAST_NAME",
      "zip", "Zip", "ZIP", "zipcode", "postal_code",
      "date_of_birth", "dob", "DOB", "birth_date",
      "medical_record_number", "patient_id" }

SENSITIVE_COLUMNS ==
    { "salary", "Salary", "SALARY", "budget", "Budget",
      "performance_rating", "rating", "medical_cost", "claim_amount",
      "age", "Age" }

\* HIPAA_CONFIG lists, as the checker reads them: col.upper()
strictly_prohibited_columns ==
    { "EMAIL", "ADDRESS", "BANK_ACCOUNT_NUMBER", "ZIP", "FIRST_NAME", "LAST_NAME" }

sensitive_columns == { "SALARY", "BUDGET" }

(***************************************************************************)
(* The query AST.                                                          *)
(***************************************************************************)
Columns == { "email", "salary", "department" }
Labels == { "none", "PUBLIC", "PRIVATE" }
\* the literal of OF [..]; "" when the aggregation has no budget
EpsTexts == { "", "0.5", "2.0", "2.5" }
Shapes == { "direct", "parens", "binop" }
Limits == { "", "1", "5", "20" }

NoCol == [label |-> "none", col |-> ""]

CountStar == [kind |-> "count", label |-> "none", col |-> "", shape |-> "direct", eps |-> ""]

PlainItem(l, c) == [kind |-> "plain", label |-> l, col |-> c, shape |-> "direct", eps |-> ""]

AggItem(l, c, s, e) == [kind |-> "agg", label |-> l, col |-> c, shape |-> s, eps |-> e]

MkQuery(its, w, g, o, lim) ==
    [items |-> its, where |-> w, group |-> g, order |-> o, limit |-> lim]

(***************************************************************************)
(* Query text: the token sequence of a query.                              *)
(***************************************************************************)
LabelTokens(l) == IF l = "none" THEN << >> ELSE << l >>

ColTokens(lc) == LabelTokens(lc.label) \o << lc.col >>

OperandTokens(it) ==
    CASE it.shape = "direct" -> ColTokens(it)
      [] it.shape = "parens" -> << "(" >> \o ColTokens(it) \o << ")" >>
      [] OTHER -> ColTokens(it) \o << "*", "2" >>

ItemTokens(it) ==
    CASE it.kind = "count" -> << "COUNT", "(", "*", ")" >>
      [] it.kind = "plain" -> ColTokens(it)
      [] OTHER ->
           << "AVG", "(" >> \o OperandTokens(it)
           \o (IF it.eps = "" THEN << >> ELSE << "OF", "[", it.eps, "]" >>)
           \o << ")" >>

RECURSIVE ItemsTokens(_)
ItemsTokens(its) ==
    IF its = << >> THEN << >>
    ELSE IF Len(its) = 1 THEN ItemTokens(its[1])
    ELSE ItemTokens(its[1]) \o << "," >> \o ItemsTokens(Tail(its))

Render(q) ==
    << "SELECT" >> \o ItemsTokens(q.items) \o << "FROM", "employees" >>
    \o (IF q.where = NoCol THEN << >>
        ELSE << "WHERE" >> \o ColTokens(q.where) \o << ">", "0" >>)
    \o (IF q.group = NoCol THEN << >>
        ELSE << "GROUP", "BY" >> \o ColTokens(q.group))
    \o (IF q.order = "" THEN << >> ELSE << "ORDER", "BY", q.order >>)
    \o (IF q.limit = "" THEN << >> ELSE << "LIMIT", q.limit >>)

\* str.upper() on the identifiers of the vocabulary
Upper(tok) ==
    CASE tok = "email" -> "EMAIL"
      [] tok = "salary" -> "SALARY"
      [] tok = "department" -> "DEPARTMENT"
      [] tok = "employees" -> "EMPLOYEES"
      [] OTHER -> tok

UpperAll(toks) == [i \in 1..Len(toks) |-> Upper(toks[i])]

IsIdentifier(tok) ==
    tok \in Columns \cup { "employees", "SELECT", "FROM", "WHERE", "GROUP", "BY",
                           "AVG", "COUNT", "OF", "ORDER", "LIMIT", "PRIVATE", "PUBLIC" }

IsNumber(tok) == tok \in { "0", "1", "2", "5", "20" }

AggregateNames == { "AVG", "SUM", "COUNT", "MIN", "MAX" }

\* re: (AVG|SUM|COUNT|MIN|MAX)\s*\(   at token i
IsAggCallAt(toks, i) ==
    i + 1 <= Len(toks) /\ toks[i] \in AggregateNames /\ toks[i + 1] = "("

\* re: COUNT\s*\(\s*\*\s*\)   at token i
IsCountStarAt(toks, i) ==
    i + 3 <= Len(toks) /\ toks[i] = "COUNT" /\ toks[i + 1] = "("
    /\ toks[i + 2] = "*" /\ toks[i + 3] = ")"


\* the first position of tok in toks after position i (0: none)
FirstAfter(toks, tok, i) ==
    IF \E j \in (i + 1)..Len(toks) : toks[j] = tok
    THEN CHOOSE j \in (i + 1)..Len(toks) :
            toks[j] = tok /\ \A k \in (i + 1)..(j - 1) : toks[k] # tok
    ELSE 0

\* int() of the digits of a LIMIT
IntOf(tok) ==
    CASE tok = "0" -> 0
      [] tok = "1" -> 1
      [] tok = "2" -> 2
      [] tok = "5" -> 5
      [] tok = "20" -> 20
      [] OTHER -> 0

\* substring test of the regular expressions: no identifier of the vocabulary
\* is a fragment of another one
ContainsText(tok, word) == tok = word

(***************************************************************************)
(* rewriter.py: HIPAAComplianceChecker                                     *)
(***************************************************************************)
NotALabel(tok) == tok \notin { "PRIVATE", "PUBLIC" }

SelectKeywords ==
    { "SELECT", "FROM", "WHERE", "GROUP", "BY", "AVG", "SUM", "COUNT", "MIN",
      "MAX", "AS", "OF" }

\* the text between the first SELECT and the first FROM after it
SelectClauseOf(toks) ==
    LET s == FirstAfter(toks, "SELECT", 0)
        f == IF s = 0 THEN 0 ELSE FirstAfter(toks, "FROM", s)
    IN  IF s = 0 \/ f = 0 THEN << >> ELSE SubSeq(toks, s + 1, f - 1)

extract_selected_columns(toks) ==
    LET query_clean == SelectSeq(toks, NotALabel)
        select_clause == SelectClauseOf(query_clean)
    IN  IF \E i \in 1..Len(select_clause) : IsCountStarAt(select_clause, i)
        THEN {}
        ELSE { select_clause[i] : i \in { j \in 1..Len(select_clause) :
                   /\ IsIdentifier(select_clause[j])
                   /\ Upper(select_clause[j]) \notin SelectKeywords } }

has_risky_order_by_limit(toks) ==
    LET U == UpperAll(toks)
        l == IF \E i \in 1..(Len(toks) - 1) : U[i] = "LIMIT" /\ IsNumber(U[i + 1])
             THEN CHOOSE i \in 1..(Len(toks) - 1) :
                     /\ U[i] = "LIMIT" /\ IsNumber(U[i + 1])
                     /\ \A k \in 1..(i - 1) : ~(U[k] = "LIMIT" /\ IsNumber(U[k + 1]))
             ELSE 0
    IN  /\ \E i \in 1..(Len(toks) - 1) : U[i] = "ORDER" /\ U[i + 1] = "BY"
        /\ \E i \in 1..Len(toks) : U[i] = "LIMIT"
        /\ l # 0
        /\ IntOf(U[l + 1]) <= 10

has_limit_one_without_aggregation(toks) ==
    LET U == UpperAll(toks)
    IN  /\ \E i \in 1..(Len(toks) - 1) : U[i] = "LIMIT" /\ U[i + 1] = "1"
        /\ ~ \E i \in 1..Len(toks) : IsAggCallAt(U, i)

\* "" when compliant, else the kind of the violation
check_query(toks) ==
    IF extract_selected_columns(toks) \cap PROHIBITED_COLUMNS # {} THEN "PII"
    ELSE IF has_risky_order_by_limit(toks) THEN "ORDER_LIMIT"
    ELSE IF has_limit_one_without_aggregation(toks) THEN "LIMIT_ONE"
    ELSE ""

(***************************************************************************)
(* hospital_production.py: HIPAAComplianceChecker                          *)
(***************************************************************************)
\* re: \bSELECT\b.*\bCOL\b.*\bFROM\b
SelectsColumn(U, col) ==
    \E j \in 1..Len(U) :
        /\ U[j] = col
        /\ \E s \in 1..(j - 1) : U[s] = "SELECT"
        /\ \E f \in (j + 1)..Len(U) : U[f] = "FROM"

\* re: (AVG|SUM|MAX|MIN|COUNT)\s*\(\s*.*COL
AggBeforeColumn(U, col) ==
    \E j \in 1..Len(U) :
        /\ ContainsText(U[j], col)
        /\ \E i \in 1..(j - 2) : IsAggCallAt(U, i)

\* re: PRIVATE\s+.*COL
PrivateBeforeColumn(U, col) ==
    \E j \in 1..Len(U) :
        ContainsText(U[j], col) /\ \E i \in 1..(j - 1) : U[i] = "PRIVATE"

\* re: ORDER\s+BY\s+.*COL
OrderByColumn(U, col) ==
    \E j \in 1..Len(U) :
        /\ ContainsText(U[j], col)
        /\ \E i \in 1..(j - 2) : U[i] = "ORDER" /\ U[i + 1] = "BY"

check_query_compliance(toks) ==
    LET U == UpperAll(toks)
    IN  IF \E col \in strictly_prohibited_columns :
               SelectsColumn(U, col) /\ ~AggBeforeColumn(U, col)
        THEN "PII"
        ELSE IF \E col \in sensitive_columns :
               /\ \E j \in 1..Len(U) : U[j] = col
               /\ ~(PrivateBeforeColumn(U, col)
                    \/ \E i \in 1..Len(U) : IsCountStarAt(U, i))
        THEN "SENSITIVE"
        ELSE IF \E col \in sensitive_columns \cup strictly_prohibited_columns :
               OrderByColumn(U, col)
        THEN "ORDER_BY"
        ELSE IF \E i \in 1..(Len(U) - 1) : U[i] = "LIMIT" /\ U[i + 1] = "1"
        THEN "LIMIT_ONE"
        ELSE ""

(***************************************************************************)
(* The parser.  The generated visitor has a rule for each clause of the    *)
(* grammar and none for ORDER BY or LIMIT: a query that carries one is     *)
(* either refused by the parser or parsed up to the end of its last known  *)
(* clause.  Both pipelines install error listeners and stop on a recorded  *)
(* syntax error.                                                           *)
(***************************************************************************)
MayFailToParse(q) == q.order # "" \/ q.limit # ""

(***************************************************************************)
(* The visitors: DPDSL_Rewriter_Visitor (rewriter.py, mode "prod") and     *)
(* DPDSL_Rewriter (dp_rewriter.py, modes "hospital" and "dev").            *)
(***************************************************************************)
Modes == { "prod", "hospital", "dev" }

\* float(re.search(r'[\d.]+', budget_text).group()), in units of 0.5
FloatOf(text) ==
    CASE text = "0.5" -> 1
      [] text = "2.0" -> 4
      [] text = "2.5" -> 5
      [] OTHER -> 0

NoRewrite == [cost |-> 0, errors |-> << >>, clipped |-> FALSE, noised |-> FALSE,
              stripped |-> FALSE]

\* visitAggregation of rewriter.py, then visitChildren: the operand's
\* LabeledColumn has an Aggregation ancestor, so visitLabeledColumn skips it
visitAggregationProd(it) ==
    IF it.shape = "direct" /\ it.label = "PRIVATE"
    THEN LET budget == IF it.eps # "" THEN FloatOf(it.eps) ELSE DEFAULT_EPSILON
         IN  IF it.eps # "" /\ budget > MAX_EPSILON_PER_QUERY
             THEN [NoRewrite EXCEPT !.errors = << "EPSILON" >>]
             ELSE [cost |-> budget, errors |-> << >>, clipped |-> TRUE,
                   noised |-> TRUE, stripped |-> TRUE]
    ELSE IF it.shape = "direct" /\ it.label = "PUBLIC"
    THEN [NoRewrite EXCEPT !.stripped = TRUE]
    ELSE NoRewrite

\* visitAggregation of dp_rewriter.py
visitAggregationDev(it) ==
    IF it.shape = "direct" /\ it.label = "PRIVATE"
    THEN LET budget == IF it.eps # "" THEN FloatOf(it.eps) ELSE DEFAULT_EPSILON
         IN  [cost |-> budget, errors |-> << >>, clipped |-> TRUE,
              noised |-> TRUE, stripped |-> TRUE]
    ELSE IF it.shape = "direct" /\ it.label = "PUBLIC"
    THEN [NoRewrite EXCEPT !.stripped = TRUE]
    ELSE NoRewrite

visitAggregation(m, it) ==
    IF m = "prod" THEN visitAggregationProd(it) ELSE visitAggregationDev(it)

\* a LabeledColumn with no Aggregation ancestor (select item, WHERE operand)
visitLabeledColumn(lc) ==
    CASE lc.label = "PUBLIC" -> [NoRewrite EXCEPT !.stripped = TRUE]
      [] lc.label = "PRIVATE" -> [NoRewrite EXCEPT !.errors = << "DIRECT" >>]
      [] OTHER -> NoRewrite

visitGroup_by_clause(g) ==
    CASE g.label = "PRIVATE" -> [NoRewrite EXCEPT !.errors = << "GROUP_BY" >>]
      [] g.label = "PUBLIC" -> [NoRewrite EXCEPT !.stripped = TRUE]
      [] OTHER -> NoRewrite

\* variant: COUNT(*) is charged and noised like a PRIVATE aggregation
visitSelect_itemCountCharged(m, it) ==
    CASE it.kind = "count" ->
           [cost |-> DEFAULT_EPSILON, errors |-> << >>, clipped |-> FALSE,
            noised |-> TRUE, stripped |-> FALSE]
      [] it.kind = "plain" -> visitLabeledColumn(it)
      [] OTHER -> visitAggregation(m, it)

visitSelect_item(m, it) ==
    CASE it.kind = "count" -> NoRewrite
      [] it.kind = "plain" -> visitLabeledColumn(it)
      [] OTHER -> visitAggregation(m, it)

\* the rewrite records of the select items, in visit order
ItemRewrites(m, q) == [i \in 1..Len(q.items) |-> visitSelect_item(m, q.items[i])]

RECURSIVE SumCost(_)
SumCost(rws) == IF rws = << >> THEN 0 ELSE rws[1].cost + SumCost(Tail(rws))

RECURSIVE CatErrors(_)
CatErrors(rws) == IF rws = << >> THEN << >> ELSE rws[1].errors \o CatErrors(Tail(rws))

\* visitor.visit(tree): select clause, then where clause, then group-by clause
Visit(m, q) ==
    LET rws == ItemRewrites(m, q)
        w == IF q.where = NoCol THEN NoRewrite ELSE visitLabeledColumn(q.where)
        g == IF q.group = NoCol THEN NoRewrite ELSE visitGroup_by_clause(q.group)
    IN  [privacy_cost |-> SumCost(rws),
         errors |-> CatErrors(rws) \o w.errors \o g.errors,
         items |-> rws]

(***************************************************************************)
(* The emitted text.                                                       *)
(***************************************************************************)
\* METADATA_BOUNDS.get(col_name, 100000), as the text spliced into the query
BoundText(m, col) ==
    IF col = "salary" THEN (IF m = "prod" THEN "300000" ELSE "150000")
    ELSE "100000"

BudgetTokens(it) == IF it.eps = "" THEN << >> ELSE << "OF", "[", it.eps, "]" >>

\* the tokens of a select item after the replaceRange / insertAfter calls
RewrittenItem(m, it, rw) ==
    IF it.kind = "agg" /\ rw.clipped
    THEN << "AVG", "(", "MIN", "(", it.col, ",", BoundText(m, it.col), ")" >>
         \o BudgetTokens(it) \o << ")" >>
         \o (IF rw.noised THEN << "+", "NOISE" >> ELSE << >>)
    ELSE IF it.kind = "agg" /\ rw.stripped
    THEN << "AVG", "(", it.col >> \o BudgetTokens(it) \o << ")" >>
    ELSE IF it.kind = "plain" /\ rw.stripped
    THEN << it.col >>
    ELSE ItemTokens(it)

RECURSIVE RewrittenItems(_, _, _)
RewrittenItems(m, its, rws) ==
    IF its = << >> THEN << >>
    ELSE IF Len(its) = 1 THEN RewrittenItem(m, its[1], rws[1])
    ELSE RewrittenItem(m, its[1], rws[1]) \o << "," >>
         \o RewrittenItems(m, Tail(its), Tail(rws))

\* rewriter.getDefaultText()
DefaultText(m, q) ==
    << "SELECT" >> \o RewrittenItems(m, q.items, ItemRewrites(m, q))
    \o << "FROM", "employees" >>
    \o (IF q.where = NoCol THEN << >>
        ELSE << "WHERE" >>
             \o (IF q.where.label = "PUBLIC" THEN << q.where.col >>
                 ELSE ColTokens(q.where))
             \o << ">", "0" >>)
    \o (IF q.group = NoCol THEN << >>
        ELSE << "GROUP", "BY" >>
             \o (IF q.group.label = "PUBLIC" \/ (m # "prod" /\ q.group.label = "PRIVATE")
                 THEN << q.group.col >>
                 ELSE ColTokens(q.group)))
    \o (IF q.order = "" THEN << >> ELSE << "ORDER", "BY", q.order >>)
    \o (IF q.limit = "" THEN << >> ELSE << "LIMIT", q.limit >>)

\* re.sub(r'OF\s*\[[^\]]+\]', '', sql)
RECURSIVE RemoveBudgets(_)
RemoveBudgets(toks) ==
    IF toks = << >> THEN << >>
    ELSE IF Len(toks) >= 4 /\ toks[1] = "OF" /\ toks[2] = "[" /\ toks[4] = "]"
    THEN RemoveBudgets(SubSeq(toks, 5, Len(toks)))
    ELSE << toks[1] >> \o RemoveBudgets(Tail(toks))

\* the annotation-removing part of get_rewritten_sql
get_rewritten_sql(toks) == SelectSeq(RemoveBudgets(toks), NotALabel)

EmittedText(m, q) == get_rewritten_sql(DefaultText(m, q))

(***************************************************************************)
(* The queries submitted.                                                  *)
(***************************************************************************)
Items ==
    { CountStar }
    \cup { PlainItem(l, c) : l \in Labels, c \in Columns }
    \cup { AggItem("PRIVATE", c, s, e) : c \in Columns, s \in Shapes, e \in EpsTexts }
    \cup { AggItem(l, c, "direct", "") : l \in { "none", "PUBLIC" }, c \in Columns }

PairItems ==
    { CountStar }
    \cup { PlainItem(l, c) : l \in Labels, c \in { "email", "salary" } }
    \cup { AggItem("PRIVATE", "salary", "direct", e) : e \in EpsTexts }
    \cup { AggItem("PRIVATE", "salary", "parens", "") }

ClauseCols ==
    { [label |-> "PRIVATE", col |-> "salary"],
      [label |-> "PUBLIC", col |-> "department"],
      [label |-> "none", col |-> "salary"] }

Queries ==
    { MkQuery(<< it >>, NoCol, NoCol, "", "") : it \in Items }
    \cup { MkQuery(<< a, b >>, NoCol, NoCol, "", "") : a \in PairItems, b \in PairItems }
    \cup { MkQuery(<< it >>, w, NoCol, "", "") : it \in PairItems, w \in ClauseCols }
    \cup { MkQuery(<< it >>, NoCol, g, "", "") : it \in PairItems, g \in ClauseCols }
    \cup { MkQuery(<< it >>, NoCol, NoCol, o, l) :
             it \in PairItems, o \in { "", "salary", "department" }, l \in Limits }
    \cup { MkQuery(<< PlainItem("PUBLIC", "department"), a >>, NoCol,
                   [label |-> "PUBLIC", col |-> "department"], "", "") :
             a \in PairItems }

\* the queries of the ledger runs: costs 0.5, 1.0, 2.0 and 4.0, two free
\* queries, one the validator rejects, one the compliance checkers reject and
\* one with clauses the grammar does not know
LedgerQueries ==
    { MkQuery(<< AggItem("PRIVATE", "salary", "direct", e) >>, NoCol, NoCol, "", "") :
        e \in { "", "0.5", "2.0" } }
    \cup { MkQuery(<< AggItem("PRIVATE", "salary", "direct", "2.0"),
                      AggItem("PRIVATE", "salary", "direct", "2.0") >>,
                   NoCol, NoCol, "", ""),
           MkQuery(<< CountStar >>, NoCol, NoCol, "", ""),
           MkQuery(<< PlainItem("PUBLIC", "department"), CountStar >>, NoCol,
                   [label |-> "PUBLIC", col |-> "department"], "", ""),
           MkQuery(<< PlainItem("PRIVATE", "salary") >>, NoCol, NoCol, "", ""),
           MkQuery(<< PlainItem("none", "email") >>, NoCol, NoCol, "", ""),
           MkQuery(<< CountStar >>, NoCol, NoCol, "department", "20") }

NoQuery == MkQuery(<< >>, NoCol, NoCol, "", "")

AllQueries == Queries \cup LedgerQueries

\* the checkers and the visitors are functions of the query alone
ComplianceOf ==
    [m \in Modes |-> [q \in AllQueries |->
        CASE m = "prod" -> check_query(Render(q))
          [] m = "hospital" -> check_query_compliance(Render(q))
          [] OTHER -> ""]]

VisitOf == [m \in Modes |-> [q \in AllQueries |-> Visit(m, q)]]

(***************************************************************************)
(* State.                                                                  *)
(***************************************************************************)
Users == { "u1", "u2" }
Threads == { "t1", "t2" }
ObjIds == 1..(Cardinality(Users) + Cardinality(Threads))

VARIABLES
    mode,          \* the pipeline in use
    rewriter_loaded, \* hospital: "from dp_rewriter import ..." succeeded
    audit_sink_ok,   \* the audit log file can be opened and appended to
    max_budget,    \* BudgetManager.max_budget of every ledger
    heap,          \* the BudgetManager objects: current_spent and query_log
    user_budgets,  \* principal -> BudgetManager (0: no entry)
    th,            \* the calls in flight, one per thread
    calls,         \* calls made so far
    jq,            \* a query over joined tables, its data and its configuration
    visitor,       \* the DPDSL_Rewriter_Visitor of jq: position and fields
    df,            \* the DataFrame read for jq
    returned,      \* what the call of jq returns
    original,      \* a text handed to the normalization of get_rewritten_sql
    text,          \* the text after the passes made so far
    passes         \* the number of passes made

join_vars == << jq, visitor, df, returned >>

text_vars == << original, text, passes >>

vars == << mode, rewriter_loaded, audit_sink_ok, max_budget, heap, user_budgets, th, calls,
           join_vars, text_vars >>

EmptyLedger == [spent |-> 0, query_log |-> << >>]

Idle == [pc |-> "idle", user |-> "", q |-> NoQuery, bm |-> 0, cost |-> 0,
         outcome |-> "", msgs |-> << >>, engine |-> FALSE, tmp |-> 0,
         audit |-> << >>]

InFlight(t) == th[t].pc \notin { "idle", "done" }

Max(a, b) == IF a >= b THEN a ELSE b

(***************************************************************************)
(* BudgetManager                                                           *)
(***************************************************************************)
\* variant: the test looks at the amount spent so far only
check_affordabilitySpentOnly(l, cost) == l.spent < max_budget

check_affordability(l, cost) == l.spent + cost <= max_budget

\* rewriter.py clamps at 0, dp_rewriter.py does not
remaining(l) ==
    IF mode = "prod" THEN Max(0, max_budget - l.spent) ELSE max_budget - l.spent

\* variant: "=" in place of "+="
spend_storeAssign(l, loaded, cost) ==
    LET l2 == [l EXCEPT !.spent = cost]
    IN  [l2 EXCEPT !.query_log =
            Append(l.query_log, [cost |-> cost, remaining |-> remaining(l2)])]

\* self.current_spent = <loaded value> + cost; self.query_log.append(...)
spend_store(l, loaded, cost) ==
    LET l2 == [l EXCEPT !.spent = loaded + cost]
    IN  [l2 EXCEPT !.query_log =
            Append(l.query_log, [cost |-> cost, remaining |-> remaining(l2)])]

reset(l) == EmptyLedger

(***************************************************************************)
(* AuditLogger.log_query and the result handed to the caller.             *)
(***************************************************************************)
AuditRecord(result, cost, blocked) ==
    [result |-> result, privacy_cost |-> cost, blocked |-> blocked]

\* the audit records written for a blocked attempt
BlockedAudit(kind) ==
    CASE mode = "prod" -> << AuditRecord(kind, 0, TRUE) >>
      [] mode = "hospital" -> << AuditRecord("BLOCKED", 0, TRUE) >>
      [] OTHER -> << >>

\* the audit records written for a successful attempt
SuccessAudit(cost, l) ==
    CASE mode = "prod" -> << AuditRecord("ROWS", cost, FALSE) >>
      [] mode = "hospital" ->
           << AuditRecord("ROWS",
                          IF l.query_log # << >>
                          THEN l.query_log[Len(l.query_log)].cost ELSE 0,
                          FALSE) >>
      [] OTHER -> << >>

\* the records that reach the file: open(...)/write append them or raise
WriteAudit(recs) == IF audit_sink_ok THEN recs ELSE << >>

\* rewriter.py wraps the write in try/except and logs the failure;
\* hospital_production.py does not, so the exception leaves log_query
log_queryRaises == mode = "hospital" /\ ~audit_sink_ok

\* the exception of log_query leaves execute_user_query in place of its result
Raise(r) ==
    [r EXCEPT !.pc = "done", !.outcome = "AUDIT_ERROR",
              !.msgs = << "AUDIT_ERROR" >>, !.audit = << >>]

\* log_query(..., blocked=True); return None, <error>
Fail(r, outcome, msgs, kind) ==
    IF log_queryRaises THEN Raise(r)
    ELSE [r EXCEPT !.pc = "done", !.outcome = outcome, !.msgs = msgs,
                   !.audit = WriteAudit(BlockedAudit(kind))]

\* log_query(..., blocked=False); return result, None
Succeed(r, l) ==
    IF log_queryRaises THEN Raise(r)
    ELSE [r EXCEPT !.pc = "done", !.outcome = "ROWS",
                   !.audit = WriteAudit(SuccessAudit(r.cost, l))]

(***************************************************************************)
(* Queries over joined tables: Query { select, from, join?, ... } is       *)
(* visited child by child in the order of the text; the execution takes    *)
(* the join path when the visitor saw a join.  The data are the rows of    *)
(* the joined tables, << id, hours_worked >>, in the order of the engine.  *)
(***************************************************************************)
MAX_CONTRIBUTIONS == 3

\* METADATA_BOUNDS.get(col_name, 100000); the two tables differ on salary
METADATA_BOUNDS(m, col) ==
    CASE col = "salary" -> IF m = "prod" THEN 300000 ELSE 150000
      [] col = "age" -> 100
      [] col = "hours_worked" -> 80
      [] OTHER -> 100000

BoundedColumns == { "salary", "age", "hours_worked" }

NoPath == [tables |-> << >>, primary_entity_table |-> ""]

\* MultiTableJoinAnalyzer.analyze_query on the text of the query: None
\* without the word JOIN, else the tables and the first table with an entity
\* hint in its name
analyze_query(q) ==
    IF ~q.join THEN NoPath
    ELSE [tables |-> << "employees", "projects" >>,
          primary_entity_table |-> "employees"]

calculate_sensitivity(base_sensitivity, max_contributions) ==
    base_sensitivity * max_contributions

\* visitAggregation: the sensitivity of one PRIVATE aggregation, from the
\* fields of the visitor at the time the aggregation is visited
Sensitivity(v, q, col) ==
    IF v.has_join /\ v.join_path # NoPath /\ q.enabled
    THEN calculate_sensitivity(METADATA_BOUNDS(mode, col), q.max_contributions)
    ELSE METADATA_BOUNDS(mode, col)

\* the scale of np.random.laplace(0, sensitivity / budget) as a fraction;
\* budget is in units of 0.5
Scale(sensitivity, budget) == [num |-> 2 * sensitivity, den |-> budget]

\* a / b < c / d for positive denominators
Less(a, c) == a.num * c.den < c.num * a.den

\* budget = DEFAULT_EPSILON unless the aggregation has OF [..]
ResolvedEps(it) ==
    IF it.kind # "agg" THEN 1
    ELSE IF it.eps # "" THEN FloatOf(it.eps) ELSE DEFAULT_EPSILON

\* self.privacy_cost += budget, over the aggregations of the select list
RECURSIVE SumEps(_)
SumEps(its) ==
    IF its = << >> THEN 0
    ELSE (IF its[1].kind = "agg" THEN ResolvedEps(its[1]) ELSE 0)
         + SumEps(Tail(its))

\* visitSelect_clause: visitChildren over the select items, in order
visitSelect_clause(v, q) ==
    [v EXCEPT
       !.scales = [i \in 1..Len(q.items) |->
                      IF q.items[i].kind = "agg"
                      THEN Scale(Sensitivity(v, q, q.items[i].col),
                                 ResolvedEps(q.items[i]))
                      ELSE Scale(0, 1)],
       !.privacy_cost = SumEps(q.items)]

\* visitJoin_clause
visitJoin_clause(v, q) ==
    [v EXCEPT !.has_join = TRUE,
              !.join_path = IF v.join_path = NoPath THEN analyze_query(q)
                            ELSE v.join_path]

\* the frame pd.read_sql_query / cursor.execute gets for the emitted text:
\* one row of aggregates over all the joined rows, or the selected columns
\* of every joined row
ColumnIndex(col) == IF col = "id" THEN 1 ELSE 2

RECURSIVE SumOf(_, _, _)
SumOf(rows, c, bound) ==
    IF rows = << >> THEN 0
    ELSE (IF rows[1][c] <= bound THEN rows[1][c] ELSE bound)
         + SumOf(Tail(rows), c, bound)

Engine(q) ==
    IF \E i \in 1..Len(q.items) : q.items[i].kind = "agg"
    THEN [columns |-> [i \in 1..Len(q.items) |-> "SUM"],
          rows |-> << [i \in 1..Len(q.items) |->
                          SumOf(q.rows, ColumnIndex(q.items[i].col),
                                METADATA_BOUNDS(mode, q.items[i].col))] >>]
    ELSE [columns |-> [i \in 1..Len(q.items) |-> q.items[i].col],
          rows |-> [r \in 1..Len(q.rows) |->
                      [i \in 1..Len(q.items) |->
                          q.rows[r][ColumnIndex(q.items[i].col)]]]]

\* _find_entity_column: the position of the first name of possible_names
\* that is a column of the frame, 0 for None
find_entity_column(frame, path) ==
    LET names == { "id", "employees.id", "employees_id" }
        found == { i \in 1..Len(frame.columns) : frame.columns[i] \in names }
    IN  IF found = { } THEN 0 ELSE CHOOSE i \in found : \A j \in found : i <= j

\* groupby(entity_col).cumcount() + 1 of the last row of rows
ContributionCount(rows, c) ==
    Cardinality({ j \in 1..Len(rows) : rows[j][c] = rows[Len(rows)][c] })

\* variant: the last max_contributions rows of each entity are kept
RECURSIVE ClipRowsKeepLast(_, _, _)
ClipRowsKeepLast(rows, c, k) ==
    IF rows = << >> THEN << >>
    ELSE LET rest == Tail(rows)
             later == Cardinality({ j \in 1..Len(rest) : rest[j][c] = rows[1][c] })
         IN  (IF later + 1 <= k THEN << rows[1] >> ELSE << >>)
             \o ClipRowsKeepLast(rest, c, k)

\* df[df[contribution_column] <= self.max_contributions]; dp_rewriter.py
\* leaves its two working columns in the frame
RECURSIVE ClipRows(_, _, _)
ClipRows(rows, c, k) ==
    IF rows = << >> THEN << >>
    ELSE LET n == Len(rows)
             count == ContributionCount(rows, c)
             row == IF mode = "prod" THEN rows[n]
                    ELSE rows[n] \o << rows[n][c], count >>
         IN  ClipRows(SubSeq(rows, 1, n - 1), c, k)
             \o (IF count <= k THEN << row >> ELSE << >>)

apply_elastic_clipping(frame, path, k) ==
    LET c == find_entity_column(frame, path)
    IN  IF c = 0 THEN frame
        ELSE [columns |-> IF mode = "prod" THEN frame.columns
                          ELSE frame.columns
                               \o << "_dp_entity_id", "_dp_contribution_count" >>,
              rows |-> ClipRows(frame.rows, c, k)]

NoFrame == [columns |-> << >>, rows |-> << >>]

Ids == { 1, 2 }
Hours == { 1, 2 }

RowLists == UNION { [1..n -> Ids \X Hours] : n \in 0..MaxRows }

JoinItemLists ==
    { << AggItem("PRIVATE", "hours_worked", "direct", "") >>,
      << AggItem("PRIVATE", "hours_worked", "direct", "0.5"),
         AggItem("PRIVATE", "hours_worked", "direct", "2.0") >>,
      << PlainItem("PUBLIC", "id"), PlainItem("PUBLIC", "hours_worked") >>,
      << PlainItem("PUBLIC", "hours_worked") >> }

\* join: the text has a JOIN clause; enabled: ELASTIC_SENSITIVITY_ENABLED
JoinQueries ==
    [items : JoinItemLists, join : BOOLEAN, enabled : BOOLEAN,
     max_contributions : 1..MAX_CONTRIBUTIONS, rows : RowLists]

NoJoinQuery ==
    [items |-> << >>, join |-> FALSE, enabled |-> FALSE,
     max_contributions |-> MAX_CONTRIBUTIONS, rows |-> << >>]

\* DPDSL_Rewriter_Visitor.__init__
NewVisitor ==
    [pc |-> "idle", has_join |-> FALSE, join_path |-> NoPath,
     privacy_cost |-> 0, scales |-> << >>]

(***************************************************************************)
(* Initial state: the pipeline and the session budget are configuration.   *)
(* The hospital session creates the ledger of each user up front; the      *)
(* other pipelines create it on the first query.                           *)
(***************************************************************************)
InitialBudgets ==
    [u \in Users |-> CHOOSE o \in ObjIds :
        o = Cardinality({ v \in Users : v = "u1" \/ v = u })]

\* sinks: the conditions of the audit log file that the run covers
InitWith(sinks) ==
    /\ mode \in Modes
    /\ rewriter_loaded \in (IF mode = "hospital" THEN BOOLEAN ELSE { TRUE })
    /\ audit_sink_ok \in (IF mode = "dev" THEN { TRUE } ELSE sinks)
    /\ max_budget \in { TEST_MAX_BUDGET, MAX_BUDGET_PER_SESSION }
    /\ heap = [o \in ObjIds |-> EmptyLedger]
    /\ user_budgets = IF mode = "hospital" THEN InitialBudgets
                      ELSE [u \in Users |-> 0]
    /\ th = [t \in Threads |-> Idle]
    /\ calls = 0
    /\ jq = NoJoinQuery
    /\ visitor = NewVisitor
    /\ df = NoFrame
    /\ returned = << >>
    /\ original = << >>
    /\ text = << >>
    /\ passes = 0

\* the audit log file is writable
Init == InitWith({ TRUE })

\* the audit log file may be unwritable (missing directory, permissions, full
\* disk)
InitAudit == InitWith(BOOLEAN)

\* BudgetManager(max_budget=...): an object no entry and no call in flight holds
NewObj ==
    CHOOSE o \in ObjIds :
        /\ \A u \in Users : user_budgets[u] # o
        /\ \A t \in Threads : InFlight(t) => th[t].bm # o

(***************************************************************************)
(* execute_query / execute_user_query / rewrite_and_execute, step by step. *)
(***************************************************************************)
\* variant: the ledger of the principal is looked up and created first
CallLedgerFirst(t, u, q, limit) ==
    /\ ~InFlight(t)
    /\ calls < limit
    /\ calls' = calls + 1
    /\ user_budgets' = [user_budgets EXCEPT ![u] = IF @ = 0 THEN NewObj ELSE @]
    /\ LET r == [Idle EXCEPT !.user = u, !.q = q]
           v == ComplianceOf[mode][q]
       IN  th' = [th EXCEPT ![t] =
                IF v # "" THEN Fail(r, "COMPLIANCE", << v >>, "HIPAA_VIOLATION")
                ELSE [r EXCEPT !.pc = "get"]]
    /\ UNCHANGED << join_vars, text_vars, mode, rewriter_loaded, audit_sink_ok, max_budget, heap >>

\* the call arrives: compliance check, then the test "user_id not in user_budgets"
Call(t, u, q, limit) ==
    /\ ~InFlight(t)
    /\ calls < limit
    /\ calls' = calls + 1
    /\ LET r == [Idle EXCEPT !.user = u, !.q = q]
           v == ComplianceOf[mode][q]
       IN  th' = [th EXCEPT ![t] =
                IF v # "" THEN Fail(r, "COMPLIANCE", << v >>, "HIPAA_VIOLATION")
                ELSE IF ~rewriter_loaded
                THEN [r EXCEPT !.pc = "done", !.outcome = "UNAVAILABLE",
                               !.msgs = << "UNAVAILABLE" >>]
                ELSE [r EXCEPT !.pc = IF user_budgets[u] = 0 THEN "create" ELSE "get"]]
    /\ UNCHANGED << join_vars, text_vars, mode, rewriter_loaded, audit_sink_ok, max_budget, heap, user_budgets >>

\* self.user_budgets[user_id] = BudgetManager(...)
CreateLedger(t) ==
    /\ th[t].pc = "create"
    /\ LET o == NewObj
       IN  /\ heap' = [heap EXCEPT ![o] = EmptyLedger]
           /\ user_budgets' = [user_budgets EXCEPT ![th[t].user] = o]
    /\ th' = [th EXCEPT ![t].pc = "get"]
    /\ UNCHANGED << join_vars, text_vars, mode, rewriter_loaded, audit_sink_ok, max_budget, calls >>

\* budget_manager = self.user_budgets[user_id]; parse; visit; affordability
Rewrite(t) ==
    /\ th[t].pc = "get"
    /\ user_budgets[th[t].user] # 0
    /\ \E parsed \in BOOLEAN :
         LET bm == user_budgets[th[t].user]
             r == [th[t] EXCEPT !.bm = bm]
             v == VisitOf[mode][r.q]
         IN  th' = [th EXCEPT ![t] =
                  IF MayFailToParse(r.q) /\ ~parsed
                  THEN Fail(r, "SYNTAX", << "SYNTAX" >>, "SYNTAX_ERROR")
                  ELSE IF v.errors # << >>
                  THEN Fail(r, "VALIDATION",
                            IF mode = "dev" THEN v.errors ELSE << v.errors[1] >>,
                            "VALIDATION_ERROR")
                  ELSE IF v.privacy_cost > 0
                          /\ ~check_affordability(heap[bm], v.privacy_cost)
                  THEN Fail(r, "BUDGET", << "BUDGET" >>, "BUDGET_EXCEEDED")
                  ELSE [r EXCEPT !.pc = "execute", !.cost = v.privacy_cost]]
    /\ UNCHANGED << join_vars, text_vars, mode, rewriter_loaded, audit_sink_ok, max_budget, heap, user_budgets, calls >>

\* what the engine does with the emitted text: rows, or an exception whose
\* text holds "near ... syntax error", or an exception with any other text
EngineResults == { "rows", "near_syntax", "other" }

\* the message returned for an engine exception: rewriter.py returns one
\* fixed sentence; dp_rewriter.py returns a fixed sentence for the texts with
\* "near" and "syntax error" and "Error: " + str(e) for all others
EngineErrorMessage(res) ==
    IF mode = "prod" THEN "DB_GENERIC"
    ELSE IF res = "near_syntax" THEN "DB_UPPERCASE"
    ELSE "DB_DETAIL"

\* cursor.execute(final_sql): the engine returns rows or raises
Execute(t) ==
    /\ th[t].pc = "execute"
    /\ \E res \in EngineResults :
         LET r == [th[t] EXCEPT !.engine = TRUE]
         IN  th' = [th EXCEPT ![t] =
                  IF res # "rows"
                  THEN Fail(r, "DB_ERROR", << EngineErrorMessage(res) >>,
                            "DB_ERROR")
                  ELSE IF r.cost > 0 THEN [r EXCEPT !.pc = "spend"]
                  ELSE Succeed(r, heap[r.bm])]
    /\ UNCHANGED << join_vars, text_vars, mode, rewriter_loaded, audit_sink_ok, max_budget, heap, user_budgets, calls >>

\* BudgetManager.spend: if not self.check_affordability(cost): raise ValueError
SpendCheck(t) ==
    /\ th[t].pc = "spend"
    /\ th' = [th EXCEPT ![t] =
            IF check_affordability(heap[th[t].bm], th[t].cost)
            THEN [th[t] EXCEPT !.pc = "spend_load"]
            ELSE Fail(th[t], "SPEND_ERROR", << "BUDGET" >>, "ERROR")]
    /\ UNCHANGED << join_vars, text_vars, mode, rewriter_loaded, audit_sink_ok, max_budget, heap, user_budgets, calls >>

\* self.current_spent += cost: the load
SpendLoad(t) ==
    /\ th[t].pc = "spend_load"
    /\ th' = [th EXCEPT ![t].pc = "spend_store", ![t].tmp = heap[th[t].bm].spent]
    /\ UNCHANGED << join_vars, text_vars, mode, rewriter_loaded, audit_sink_ok, max_budget, heap, user_budgets, calls >>

\* self.current_spent += cost: the store; query_log.append; audit; return
SpendStore(t) ==
    /\ th[t].pc = "spend_store"
    /\ LET l == spend_store(heap[th[t].bm], th[t].tmp, th[t].cost)
       IN  /\ heap' = [heap EXCEPT ![th[t].bm] = l]
           /\ th' = [th EXCEPT ![t] = Succeed(th[t], l)]
    /\ UNCHANGED << join_vars, text_vars, mode, rewriter_loaded, audit_sink_ok, max_budget, user_budgets, calls >>

\* reset_user_budget (rewriter.py) / BudgetManager.reset (app.py, dev mode)
Reset(u) ==
    /\ mode # "hospital"
    /\ \A t \in Threads : ~InFlight(t)
    /\ user_budgets[u] # 0
    /\ heap' = [heap EXCEPT ![user_budgets[u]] = reset(@)]
    /\ user_budgets' = IF mode = "prod" THEN [user_budgets EXCEPT ![u] = 0]
                       ELSE user_budgets
    /\ UNCHANGED << join_vars, text_vars, mode, rewriter_loaded, audit_sink_ok, max_budget, th, calls >>

Step(t) ==
    \/ CreateLedger(t)
    \/ Rewrite(t)
    \/ Execute(t)
    \/ SpendCheck(t)
    \/ SpendLoad(t)
    \/ SpendStore(t)

\* one call at a time, any query
Next ==
    \/ \E u \in Users, q \in Queries :
          (\A t \in Threads : ~InFlight(t)) /\ Call("t1", u, q, MaxCalls)
    \/ Step("t1")
    \/ \E u \in Users : Reset(u)

Spec == Init /\ [][Next]_vars

\* one call at a time, the ledger queries, longer runs
NextLedger ==
    \/ \E u \in Users, q \in LedgerQueries :
          (\A t \in Threads : ~InFlight(t)) /\ Call("t1", u, q, MaxLedgerCalls)
    \/ Step("t1")
    \/ \E u \in Users : Reset(u)

SpecLedger == Init /\ [][NextLedger]_vars

\* one call at a time, the ledger queries, the audit sink may fail
SpecAudit == InitAudit /\ [][NextLedger]_vars

\* concurrent calls of one principal
NextConc ==
    \/ \E t \in Threads, q \in LedgerQueries : Call(t, "u1", q, MaxConcCalls)
    \/ \E t \in Threads : Step(t)

SpecConc == Init /\ [][NextConc]_vars

(***************************************************************************)
(* The call of a query over joined tables, from the parse to the return.   *)
(* The ledger steps of the call are those of the actions above.            *)
(***************************************************************************)
pipeline_vars ==
    << mode, rewriter_loaded, audit_sink_ok, max_budget, heap, user_budgets, th, calls >>

InitJoin ==
    /\ mode \in Modes
    /\ rewriter_loaded = TRUE
    /\ audit_sink_ok = TRUE
    /\ max_budget = MAX_BUDGET_PER_SESSION
    /\ heap = [o \in ObjIds |-> EmptyLedger]
    /\ user_budgets = [u \in Users |-> 0]
    /\ th = [t \in Threads |-> Idle]
    /\ calls = 0
    /\ jq \in JoinQueries
    /\ visitor = NewVisitor
    /\ df = NoFrame
    /\ returned = << >>
    /\ original = << >>
    /\ text = << >>
    /\ passes = 0

\* tree = parser.query(): the grammar is not in the repository, a text with a
\* JOIN clause may be refused
ParseJoinQuery ==
    /\ visitor.pc = "idle"
    /\ \E parsed \in BOOLEAN :
         visitor' = [visitor EXCEPT !.pc = IF jq.join /\ ~parsed THEN "syntax_error"
                                           ELSE "select"]
    /\ UNCHANGED << pipeline_vars, text_vars, jq, df, returned >>

\* visitor.visit(tree): the select clause is the first child of the query
VisitSelect_clause ==
    /\ visitor.pc = "select"
    /\ visitor' = [visitSelect_clause(visitor, jq) EXCEPT
                      !.pc = IF jq.join THEN "join" ELSE "execute"]
    /\ UNCHANGED << pipeline_vars, text_vars, jq, df, returned >>

\* visitor.visit(tree): the join clause follows the from clause
VisitJoin_clause ==
    /\ visitor.pc = "join"
    /\ visitor' = [visitJoin_clause(visitor, jq) EXCEPT !.pc = "execute"]
    /\ UNCHANGED << pipeline_vars, text_vars, jq, df, returned >>

\* Step 7 of execute_query / "Execute query" of rewrite_and_execute
ExecuteJoinQuery ==
    /\ visitor.pc = "execute"
    /\ IF visitor.has_join /\ visitor.join_path # NoPath /\ jq.enabled
       THEN /\ df' = apply_elastic_clipping(Engine(jq), visitor.join_path,
                                            jq.max_contributions)
            /\ returned' = IF mode = "prod" THEN df'.rows
                           ELSE << << Len(df'.rows) >> >>
       ELSE /\ df' = Engine(jq)
            /\ returned' = df'.rows
    /\ visitor' = [visitor EXCEPT !.pc = "done"]
    /\ UNCHANGED << pipeline_vars, text_vars, jq >>

NextJoin ==
    \/ ParseJoinQuery
    \/ VisitSelect_clause
    \/ VisitJoin_clause
    \/ ExecuteJoinQuery

SpecJoin == InitJoin /\ [][NextJoin]_vars

(***************************************************************************)
(* The text normalization of get_rewritten_sql, on texts made of the       *)
(* pieces below.  A piece is a run of characters that the regular          *)
(* expressions treat as a unit; FROM stands for each of the keywords.      *)
(***************************************************************************)
Pieces == { "OF", "[", "]", "PRIVATE", "PUBLIC", " ", ",", "x", "FROM", "(", ")", "+" }

\* \w
IsWord(p) == p \in { "OF", "PRIVATE", "PUBLIC", "x", "FROM" }

\* the text without its leading spaces
RECURSIVE SkipSpaces(_)
SkipSpaces(t) ==
    IF t # << >> /\ t[1] = " " THEN SkipSpaces(Tail(t)) ELSE t

\* re.sub(r'OF\s*\[[^\]]+\]', '', sql)
RECURSIVE SubBudget(_)
SubBudget(t) ==
    IF t = << >> THEN << >>
    ELSE LET u == SkipSpaces(Tail(t))
             closing == { k \in 3..Len(u) :
                            u[k] = "]" /\ \A m \in 2..(k - 1) : u[m] # "]" }
         IN  IF t[1] = "OF" /\ u # << >> /\ u[1] = "[" /\ closing # { }
             THEN SubBudget(SubSeq(u, (CHOOSE k \in closing : TRUE) + 1, Len(u)))
             ELSE << t[1] >> \o SubBudget(Tail(t))

\* re.sub(r'\bPRIVATE\s*', '', sql), re.sub(r'\bPUBLIC\s*', '', sql);
\* after_word: the character before the text is a word character
RECURSIVE SubLabel(_, _, _)
SubLabel(after_word, t, label) ==
    IF t = << >> THEN << >>
    ELSE IF t[1] = label /\ ~after_word
    THEN SubLabel(SkipSpaces(Tail(t)) = Tail(t), SkipSpaces(Tail(t)), label)
    ELSE << t[1] >> \o SubLabel(IsWord(t[1]), Tail(t), label)

\* re.sub(rf'{kw}(?![\(\s])', f'{kw} ', sql)
RECURSIVE SubKeywordAfter(_)
SubKeywordAfter(t) ==
    IF t = << >> THEN << >>
    ELSE IF t[1] = "FROM" /\ (Len(t) = 1 \/ t[2] \notin { "(", " " })
    THEN << "FROM", " " >> \o SubKeywordAfter(Tail(t))
    ELSE << t[1] >> \o SubKeywordAfter(Tail(t))

\* re.sub(rf'(?<![\(\s,]){kw}', f' {kw}', sql)
RECURSIVE SubKeywordBefore(_, _)
SubKeywordBefore(prev, t) ==
    IF t = << >> THEN << >>
    ELSE IF t[1] = "FROM" /\ prev \notin { "(", " ", "," }
    THEN << " ", "FROM" >> \o SubKeywordBefore("FROM", Tail(t))
    ELSE << t[1] >> \o SubKeywordBefore(t[1], Tail(t))

\* re.sub(r',(?!\s)', ', ', sql)
RECURSIVE SubComma(_)
SubComma(t) ==
    IF t = << >> THEN << >>
    ELSE IF t[1] = "," /\ (Len(t) = 1 \/ t[2] # " ")
    THEN << ",", " " >> \o SubComma(Tail(t))
    ELSE << t[1] >> \o SubComma(Tail(t))

\* re.sub(r'(\))(\+)', r'\1 \2 ', sql)
RECURSIVE SubPlus(_)
SubPlus(t) ==
    IF t = << >> THEN << >>
    ELSE IF Len(t) >= 2 /\ t[1] = ")" /\ t[2] = "+"
    THEN << ")", " ", "+", " " >> \o SubPlus(SubSeq(t, 3, Len(t)))
    ELSE << t[1] >> \o SubPlus(Tail(t))

\* re.sub(r'\s+', ' ', sql)
RECURSIVE SubSpaces(_)
SubSpaces(t) ==
    IF t = << >> THEN << >>
    ELSE IF t[1] = " " THEN << " " >> \o SubSpaces(SkipSpaces(t))
    ELSE << t[1] >> \o SubSpaces(Tail(t))

\* sql.strip()
RECURSIVE StripRight(_)
StripRight(t) ==
    IF t # << >> /\ t[Len(t)] = " " THEN StripRight(SubSeq(t, 1, Len(t) - 1))
    ELSE t

Strip(t) == StripRight(SkipSpaces(t))

RemoveAnnotations(t) ==
    SubLabel(FALSE, SubLabel(FALSE, SubBudget(t), "PRIVATE"), "PUBLIC")

\* get_rewritten_sql after getDefaultText()
Normalize(m, t) ==
    IF m = "prod"
    THEN Strip(SubComma(SubSpaces(RemoveAnnotations(t))))
    ELSE Strip(SubSpaces(SubPlus(SubComma(
             SubKeywordBefore("", SubKeywordAfter(RemoveAnnotations(t)))))))

Texts == UNION { [1..n -> Pieces] : n \in 0..MaxText }

InitText ==
    /\ mode \in { "prod", "dev" }
    /\ rewriter_loaded = TRUE
    /\ audit_sink_ok = TRUE
    /\ max_budget = MAX_BUDGET_PER_SESSION
    /\ heap = [o \in ObjIds |-> EmptyLedger]
    /\ user_budgets = [u \in Users |-> 0]
    /\ th = [t \in Threads |-> Idle]
    /\ calls = 0
    /\ jq = NoJoinQuery
    /\ visitor = NewVisitor
    /\ df = NoFrame
    /\ returned = << >>
    /\ original \in Texts
    /\ text = original
    /\ passes = 0

\* one more application of the normalization to its own output
NormalizeAgain ==
    /\ passes < 2
    /\ text' = Normalize(mode, text)
    /\ passes' = passes + 1
    /\ UNCHANGED << pipeline_vars, join_vars, original >>

SpecText == InitText /\ [][NormalizeAgain]_vars

(***************************************************************************)
(* Vocabulary of the properties.                                           *)
(***************************************************************************)
Has(seq, x) == \E i \in 1..Len(seq) : seq[i] = x

Done(t) == th[t].pc = "done"

\* the ledger the call of thread t is accounted against
LedgerOf(t) == heap[th[t].bm]

ResolvedEpsilon(it) == IF it.eps # "" THEN FloatOf(it.eps) ELSE DEFAULT_EPSILON

IsPrivateAggregation(it) == it.kind = "agg" /\ it.label = "PRIVATE"

ProhibitedOutsideAggregation(q) ==
    \E i \in 1..Len(q.items) :
        q.items[i].kind = "plain" /\ q.items[i].col \in PROHIBITED_COLUMNS

SensitiveOutsideAggregation(q) ==
    /\ \E i \in 1..Len(q.items) :
          q.items[i].kind = "plain" /\ q.items[i].col \in SENSITIVE_COLUMNS
    /\ \A i \in 1..Len(q.items) : q.items[i].kind # "count"

PrivateOutsideAggregation(q) ==
    \/ \E i \in 1..Len(q.items) :
          q.items[i].kind = "plain" /\ q.items[i].label = "PRIVATE"
    \/ q.where.label = "PRIVATE"

GroupsByPrivate(q) == q.group.label = "PRIVATE"

ExceedsMaxEpsilon(q) ==
    \E i \in 1..Len(q.items) :
        /\ IsPrivateAggregation(q.items[i])
        /\ q.items[i].shape = "direct"
        /\ ResolvedEpsilon(q.items[i]) > MAX_EPSILON_PER_QUERY

\* the sum of the epsilons of the PRIVATE aggregations of a select list
RECURSIVE EpsilonSum(_)
EpsilonSum(its) ==
    IF its = << >> THEN 0
    ELSE (IF IsPrivateAggregation(its[1]) THEN ResolvedEpsilon(its[1]) ELSE 0)
         + EpsilonSum(Tail(its))

\* only PUBLIC columns and COUNT(*)
PublicOnly(q) ==
    /\ q.items # << >>
    /\ \A i \in 1..Len(q.items) :
          q.items[i].kind = "count" \/ q.items[i].label = "PUBLIC"
    /\ q.where = NoCol \/ q.where.label = "PUBLIC"
    /\ q.group = NoCol \/ q.group.label = "PUBLIC"

\* the select list holds an aggregation call (COUNT(*) included)
HasAggregationCall(q) ==
    \E i \in 1..Len(q.items) : q.items[i].kind \in { "agg", "count" }

\* get_user_budget_status (rewriter.py) / the budget route of app.py
get_user_budget_status(u) ==
    IF user_budgets[u] = 0
    THEN [remaining |-> max_budget, spent |-> 0, queries |-> 0]
    ELSE LET l == heap[user_budgets[u]]
         IN  [remaining |-> remaining(l), spent |-> l.spent,
              queries |-> Len(l.query_log)]

\* the positions of the rows that are among the first k of their entity,
\* the entity id being column c
FirstOfEntity(rows, c, k) ==
    { i \in 1..Len(rows) :
        Cardinality({ j \in 1..i : rows[j][c] = rows[i][c] }) <= k }

\* the rows at the positions of I, in the order of rows
RECURSIVE RowsAt(_, _)
RowsAt(rows, I) ==
    IF rows = << >> THEN << >>
    ELSE RowsAt(SubSeq(rows, 1, Len(rows) - 1), I)
         \o (IF Len(rows) \in I THEN << rows[Len(rows)] >> ELSE << >>)

\* the call of jq took the join path
OnJoinPath ==
    /\ visitor.pc = "done"
    /\ visitor.has_join
    /\ visitor.join_path # NoPath
    /\ jq.enabled

AggregateQuery(q) == \E i \in 1..Len(q.items) : q.items[i].kind = "agg"

\* the scale that the visit of query q gives to its i-th select item
ScaleIn(q, i) == visitSelect_clause(NewVisitor, q).scales[i]

\* the privacy cost of the call of thread t if it returned rows to user u
ChargedTo(u, t) ==
    IF Done(t) /\ th[t].user = u /\ th[t].outcome = "ROWS" THEN th[t].cost ELSE 0

\* the sum of the cost fields of the entries of a query_log
RECURSIVE CostSum(_)
CostSum(log) == IF log = << >> THEN 0 ELSE log[1].cost + CostSum(Tail(log))

(***************************************************************************)
(* Properties.                                                             *)
(***************************************************************************)

\* C1: whatever the interleaving of the concurrent execute_query calls of one
\* principal, the principal's ledger never holds spent > max_budget.
C1_NeverOverspent ==
    mode = "prod" => \A o \in ObjIds : heap[o].spent <= max_budget

\* C2: a query that passed check_affordability and was executed always commits
\* its spend: spend never fails with a budget error after the execution.
C2_SpendNeverFailsAfterExecution ==
    \A t \in Threads : ~(th[t].engine /\ th[t].outcome = "SPEND_ERROR")

\* C3: a query whose select list names a prohibited column outside an
\* aggregation is stopped before the engine, whatever else the select list
\* holds: it is never executed and no row of it is returned.
C3_ProhibitedColumnRejected ==
    \A t \in Threads :
        (mode # "dev" /\ ProhibitedOutsideAggregation(th[t].q))
        => ~th[t].engine /\ th[t].outcome # "ROWS"

\* C4: in a query that reaches execution every aggregation over a PRIVATE
\* column, whatever the shape of its operand, is clipped, noised and charged,
\* and no PRIVATE label leaves the emitted text otherwise.
C4_PrivateAggregationsProtected ==
    \A t \in Threads :
        th[t].engine =>
            /\ \A i \in 1..Len(th[t].q.items) :
                  IsPrivateAggregation(th[t].q.items[i]) =>
                      LET rw == VisitOf[mode][th[t].q].items[i]
                      IN  /\ rw.clipped
                          /\ rw.noised
                          /\ rw.cost = ResolvedEpsilon(th[t].q.items[i])
            /\ (Has(Render(th[t].q), "PRIVATE")
                /\ ~Has(EmittedText(mode, th[t].q), "PRIVATE"))
               => Has(EmittedText(mode, th[t].q), "NOISE")

\* C5: a query with a PRIVATE column outside an aggregation that reaches the
\* validator ends with the error saying the column cannot be selected
\* directly, with no rows and no engine call.
C5_DirectErrorReported ==
    \A t \in Threads :
        (/\ Done(t)
         /\ rewriter_loaded
         /\ PrivateOutsideAggregation(th[t].q)
         /\ th[t].outcome \notin { "COMPLIANCE", "SYNTAX" })
        => /\ th[t].outcome = "VALIDATION"
           /\ Has(th[t].msgs, "DIRECT")
           /\ ~th[t].engine

\* C6: a query that groups by a PRIVATE column and reaches the validator ends
\* with a validation error mentioning GROUP BY, whatever else it contains.
C6_GroupByErrorReported ==
    \A t \in Threads :
        (/\ Done(t)
         /\ rewriter_loaded
         /\ GroupsByPrivate(th[t].q)
         /\ th[t].outcome \notin { "COMPLIANCE", "SYNTAX" })
        => /\ th[t].outcome = "VALIDATION"
           /\ Has(th[t].msgs, "GROUP_BY")

\* C7: in sequential use of a ledger, a query of cost c with
\* spent + c <= max_budget passes the budget test, its spend cannot fail and
\* lowers remaining by exactly c; a query with spent + c > max_budget fails with
\* the budget error before the engine is invoked and leaves the ledgers as they
\* were.
C7_SequentialAccounting ==
    [][\A t \in Threads :
          LET c == VisitOf[mode][th[t].q].privacy_cost
              validated == /\ th[t].pc = "get"
                           /\ th'[t].pc # "get"
                           /\ th'[t].outcome \notin { "SYNTAX", "VALIDATION" }
                           /\ c > 0
              l == heap[user_budgets[th[t].user]]
          IN  /\ (validated /\ l.spent + c <= max_budget)
                 => th'[t].pc = "execute" /\ th'[t].cost = c /\ heap' = heap
              /\ (validated /\ l.spent + c > max_budget)
                 => /\ th'[t].pc = "done"
                    /\ th'[t].outcome = "BUDGET"
                    /\ ~th'[t].engine
                    /\ heap' = heap
              /\ th[t].pc = "spend" => th'[t].pc = "spend_load"
              /\ th[t].pc = "spend_store"
                 => /\ th'[t].outcome = "ROWS"
                    /\ remaining(heap'[th[t].bm])
                         = remaining(heap[th[t].bm]) - th[t].cost
                    /\ Len(heap'[th[t].bm].query_log)
                         = Len(heap[th[t].bm].query_log) + 1]_vars

\* max_budget 2.0: costs 1.0 and 0.5 were charged, a query of cost 1.0 has
\* failed with the budget error and remaining is 0.5
C7_Witness ==
    \E t \in Threads :
        /\ max_budget = TEST_MAX_BUDGET
        /\ Done(t)
        /\ th[t].outcome = "BUDGET"
        /\ VisitOf[mode][th[t].q].privacy_cost = 2
        /\ Len(LedgerOf(t).query_log) = 2
        /\ LedgerOf(t).query_log[1].cost = 2
        /\ LedgerOf(t).query_log[2].cost = 1
        /\ remaining(LedgerOf(t)) = 1

\* C8: along a sequence of queries with no reset, spent never decreases; it
\* grows only in the step that follows the successful execution of the query
\* charged; a query that fails leaves every ledger as it was.
C8_SpentMonotone ==
    [][th' # th =>
          /\ \A o \in ObjIds :
                /\ heap'[o].spent >= heap[o].spent
                /\ heap'[o] # heap[o] =>
                      \E t \in Threads :
                          /\ th[t].pc = "spend_store"
                          /\ th[t].bm = o
                          /\ th[t].engine
                          /\ th'[t].outcome = "ROWS"
                          /\ heap'[o].spent = heap[o].spent + th[t].cost
          /\ \A t \in Threads :
                (th'[t] # th[t] /\ th'[t].pc = "done" /\ th'[t].outcome # "ROWS")
                => heap' = heap]_vars

\* an engine error after an earlier charge
C8_Witness ==
    \E t \in Threads :
        /\ Done(t)
        /\ th[t].outcome = "DB_ERROR"
        /\ th[t].cost > 0
        /\ LedgerOf(t).spent > 0
        /\ Len(LedgerOf(t).query_log) = 1

\* C9: a query that names a sensitive column outside an aggregation, and has
\* no COUNT(*), is stopped before the parser: it is never executed and no row
\* of it is returned.
C9_SensitiveColumnRejected ==
    \A t \in Threads :
        (mode # "dev" /\ SensitiveOutsideAggregation(th[t].q))
        => ~th[t].engine /\ th[t].outcome # "ROWS"

\* C10: when the epsilon of a PRIVATE aggregation exceeds
\* MAX_EPSILON_PER_QUERY the query is never executed, returns no rows and is
\* never charged.
C10_EpsilonCeiling ==
    \A t \in Threads :
        ExceedsMaxEpsilon(th[t].q)
        => /\ ~th[t].engine
           /\ th[t].outcome # "ROWS"
           /\ th[t].pc \notin { "spend", "spend_load", "spend_store" }

\* C11: the privacy cost of an executed query is the sum of the epsilons of
\* all its PRIVATE aggregations, and that sum is what a successful query is
\* charged.
C11_CostIsSumOfEpsilons ==
    \A t \in Threads : th[t].engine => th[t].cost = EpsilonSum(th[t].q.items)

\* C12: a query over PUBLIC columns and COUNT(*) only has privacy cost 0 and
\* no noise term in its emitted text; it is never refused for lack of budget
\* and no step of it changes a ledger, even when nothing remains.
C12_PublicQueriesFree ==
    [][\A t \in Threads :
          (th'[t] # th[t] /\ PublicOnly(th'[t].q))
          => /\ VisitOf[mode][th'[t].q].privacy_cost = 0
             /\ ~Has(EmittedText(mode, th'[t].q), "NOISE")
             /\ th'[t].cost = 0
             /\ th'[t].outcome # "BUDGET"
             /\ th'[t].pc \notin { "spend", "spend_load", "spend_store" }
             /\ heap' = heap]_vars

\* a PUBLIC-only query has returned rows against an exhausted ledger
C12_Witness ==
    \E t \in Threads :
        /\ Done(t)
        /\ PublicOnly(th[t].q)
        /\ th[t].outcome = "ROWS"
        /\ LedgerOf(t).spent = max_budget
        /\ remaining(LedgerOf(t)) = 0
        /\ Len(LedgerOf(t).query_log) >= 1

\* C13: when the visit records validation errors the caller receives every one
\* of them, and nothing is executed.
C13_AllErrorsSurfaced ==
    \A t \in Threads :
        (Done(t) /\ th[t].outcome = "VALIDATION")
        => th[t].msgs = VisitOf[mode][th[t].q].errors /\ ~th[t].engine

\* C14: every call of execute_query / execute_user_query hands exactly one
\* record to the audit sink, whatever its outcome, and none before it ends.
C14_OneAuditRecord ==
    \A t \in Threads :
        mode # "dev" => Len(th[t].audit) = IF Done(t) THEN 1 ELSE 0

\* C15: a call whose query the compliance check refuses ends in its first
\* step, before parsing: no ledger is created or changed, nothing is validated
\* or executed, the reason is returned without rows and one blocked-attempt
\* record of privacy cost 0 is written.
C15_ComplianceStopsFirst ==
    [][\A t \in Threads :
          (/\ mode # "dev"
           /\ ~InFlight(t)
           /\ th'[t] # th[t]
           /\ ComplianceOf[mode][th'[t].q] # "")
          => /\ th'[t].pc = "done"
             /\ th'[t].outcome = "COMPLIANCE"
             /\ th'[t].msgs = << ComplianceOf[mode][th'[t].q] >>
             /\ ~th'[t].engine
             /\ th'[t].cost = 0
             /\ heap' = heap
             /\ user_budgets' = user_budgets
             /\ Len(th'[t].audit) = 1
             /\ th'[t].audit[1].blocked
             /\ th'[t].audit[1].privacy_cost = 0]_vars

\* a refused query of a principal that has no ledger yet
C15_Witness ==
    \E t \in Threads :
        /\ mode = "prod"
        /\ Done(t)
        /\ th[t].outcome = "COMPLIANCE"
        /\ user_budgets[th[t].user] = 0
        /\ \E u \in Users : user_budgets[u] # 0 /\ heap[user_budgets[u]].spent > 0

\* C16: a query whose ordering clause names a sensitive or prohibited column
\* is rejected by the compliance check, with or without a LIMIT clause.
C16_OrderingRejected ==
    \A t \in Threads :
        (/\ Done(t)
         /\ mode # "dev"
         /\ th[t].q.order \in SENSITIVE_COLUMNS \cup PROHIBITED_COLUMNS)
        => th[t].outcome = "COMPLIANCE"

\* C17: the compliance check rejects every query with an ordering clause and
\* a limit of at most 10, and every query with LIMIT 1 and no aggregation call;
\* a query with LIMIT 1, an aggregation call and no ordering clause is not
\* rejected by the limit rule.
C17_SingletonRule ==
    \A t \in Threads :
        (Done(t) /\ mode # "dev" /\ rewriter_loaded) =>
            /\ (th[t].q.order # "" /\ th[t].q.limit # ""
                /\ IntOf(th[t].q.limit) <= 10)
               => th[t].outcome = "COMPLIANCE"
            /\ (th[t].q.limit = "1" /\ ~HasAggregationCall(th[t].q))
               => th[t].outcome = "COMPLIANCE"
            /\ (th[t].q.limit = "1" /\ HasAggregationCall(th[t].q)
                /\ th[t].q.order = "")
               => th[t].msgs # << "LIMIT_ONE" >>

\* C18: in every reachable state of every ledger, of either BudgetManager
\* class, remaining() equals max(0, max_budget - spent) and is not negative.
C18_RemainingClamped ==
    \A o \in ObjIds :
        /\ remaining(heap[o]) = Max(0, max_budget - heap[o].spent)
        /\ remaining(heap[o]) >= 0

\* C19: when the engine fails on the emitted text the caller gets no rows and
\* the fixed generic message, which carries no text of the engine's error, and
\* nothing is spent.
C19_EngineErrorSanitized ==
    [][\A t \in Threads :
          (th[t].pc = "execute" /\ th'[t].outcome = "DB_ERROR")
          => /\ th'[t].msgs \in { << "DB_GENERIC" >>, << "DB_UPPERCASE" >> }
             /\ heap' = heap]_vars

\* C20: a failure of the audit sink never changes what the caller gets: no
\* call, blocked or successful, ends with the exception of the audit write in
\* place of its rows or its error.
C20_AuditFailureInvisible ==
    \A t \in Threads :
        (Done(t) /\ ~audit_sink_ok) => th[t].outcome # "AUDIT_ERROR"

\* C21: the reset of a principal's budget clears spent and history (the next
\* budget status reports spent 0, remaining max_budget, query count 0) and
\* changes no other principal's ledger; only the reset operation does this: no
\* step of query processing lowers the spent value or the query count that
\* the status of a principal reports.
C21_ResetOnlyByReset ==
    [][\A u \in Users :
          LET before == get_user_budget_status(u)
              after == get_user_budget_status(u)'
          IN  /\ Reset(u)
                 => /\ after = [remaining |-> max_budget, spent |-> 0,
                                queries |-> 0]
                    /\ \A v \in Users \ { u } :
                          get_user_budget_status(v)' = get_user_budget_status(v)
              /\ (after.spent < before.spent \/ after.queries < before.queries)
                 => Reset(u)]_vars

\* C22: in the visit of a query with a join clause, with elastic sensitivity
\* enabled, every PRIVATE aggregation of the select list gets its noise scaled
\* with base_bound x max_contributions; without a join, or with elastic
\* sensitivity disabled, with base_bound.
C22_ElasticSensitivityApplied ==
    visitor.pc \in { "execute", "done" } =>
        \A i \in 1..Len(jq.items) :
            jq.items[i].kind = "agg" =>
                visitor.scales[i] =
                    Scale(METADATA_BOUNDS(mode, jq.items[i].col)
                          * (IF jq.join /\ jq.enabled THEN jq.max_contributions
                             ELSE 1),
                          ResolvedEps(jq.items[i]))

\* C23: on the join path the value returned for each requested aggregate is
\* the aggregate over the joined rows retained by the per-entity clipping, not
\* over all the joined rows and not a row count.
C23_AggregateOverRetainedRows ==
    (OnJoinPath /\ AggregateQuery(jq)) =>
        returned =
            << [i \in 1..Len(jq.items) |->
                  SumOf(RowsAt(jq.rows,
                               FirstOfEntity(jq.rows, 1, jq.max_contributions)),
                        ColumnIndex(jq.items[i].col),
                        METADATA_BOUNDS(mode, jq.items[i].col))] >>

\* C24: apply_elastic_clipping, when the frame has an entity-identifier
\* column, returns for each entity id exactly its first
\* min(k, max_contributions) rows, in the order of the frame; when the frame
\* has none it returns the frame unchanged.
C24_ClippingKeepsFirstRows ==
    OnJoinPath =>
        LET frame == Engine(jq)
            c == find_entity_column(frame, visitor.join_path)
            width == Len(frame.columns)
        IN  IF c = 0 THEN df = frame
            ELSE [r \in 1..Len(df.rows) |-> SubSeq(df.rows[r], 1, width)]
                 = RowsAt(frame.rows,
                          FirstOfEntity(frame.rows, c, jq.max_contributions))

\* three joined rows of one entity, two contributions allowed: the first two
\* rows are returned and the third is discarded
C24_Witness ==
    /\ OnJoinPath
    /\ find_entity_column(Engine(jq), visitor.join_path) # 0
    /\ jq.max_contributions = 2
    /\ Len(jq.rows) = 3
    /\ \A r \in 1..3 : jq.rows[r][1] = 1
    /\ jq.rows[1][2] # jq.rows[3][2]
    /\ Len(df.rows) = 2

\* C25: the scale of the Laplace draw of a PRIVATE aggregation strictly
\* decreases as epsilon increases (same bound), strictly increases with the
\* bound (same epsilon) and, in a query with a join and elastic sensitivity
\* enabled, strictly increases with max_contributions.
C25_ScaleMonotone ==
    visitor.pc \in { "execute", "done" } =>
        \A i \in 1..Len(jq.items) :
            jq.items[i].kind = "agg" =>
                /\ \A e \in EpsTexts :
                      LET q2 == [jq EXCEPT !.items[i].eps = e]
                      IN  ResolvedEps(jq.items[i]) < ResolvedEps(q2.items[i])
                          => Less(ScaleIn(q2, i), visitor.scales[i])
                /\ \A col \in BoundedColumns :
                      METADATA_BOUNDS(mode, jq.items[i].col)
                          < METADATA_BOUNDS(mode, col)
                      => Less(visitor.scales[i],
                              ScaleIn([jq EXCEPT !.items[i].col = col], i))
                /\ (jq.join /\ jq.enabled) =>
                      \A k \in 1..MAX_CONTRIBUTIONS :
                          jq.max_contributions < k
                          => Less(visitor.scales[i],
                                  ScaleIn([jq EXCEPT !.max_contributions = k], i))

\* C26: the text normalization of get_rewritten_sql is idempotent: for every
\* text, applying it twice gives the text that applying it once gives.
C26_NormalizationIdempotent ==
    passes = 2 => text = Normalize(mode, original)

\* C27: whatever the interleaving of the queries of one principal, lazily
\* created ledger included, no spend is lost: when every thread has finished
\* its call, the status of the principal reports as spent the sum of the
\* privacy costs of its queries that returned rows.
C27_NoSpendLost ==
    (\A t \in Threads : Done(t)) =>
        \A u \in Users :
            get_user_budget_status(u).spent
                = ChargedTo(u, "t1") + ChargedTo(u, "t2")

\* C28: the total privacy cost charged for one executed query of
\* DPDSLRewriter never exceeds MAX_EPSILON_PER_QUERY, however many PRIVATE
\* aggregations the query has.
C28_QueryCostCeiling ==
    \A t \in Threads :
        (mode = "prod" /\ Done(t) /\ th[t].outcome = "ROWS")
        => th[t].cost <= MAX_EPSILON_PER_QUERY

\* C29: in every reachable state of every BudgetManager, spent is the sum of
\* the costs of its history entries and the remaining recorded in each entry
\* is max_budget minus the cumulative cost up to and including that entry.
C29_LedgerMatchesHistory ==
    \A o \in ObjIds :
        /\ heap[o].spent = CostSum(heap[o].query_log)
        /\ \A i \in 1..Len(heap[o].query_log) :
              heap[o].query_log[i].remaining
                  = max_budget - CostSum(SubSeq(heap[o].query_log, 1, i))

\* C30: the privacy_cost of the audit record of an attempt is the privacy
\* cost of the attempt's own query: 0 for a blocked attempt and for a
\* zero-cost query, the total epsilon of the query for a charged one, whatever
\* the principal ran before.
C30_AuditCostIsOwnCost ==
    \A t \in Threads :
        \A i \in 1..Len(th[t].audit) :
            th[t].audit[i].privacy_cost
                = IF th[t].outcome = "ROWS"
                  THEN VisitOf[mode][th[t].q].privacy_cost
                  ELSE 0

=============================================================================
